---- MODULE Spec2Model ----
(***************************************************************************)
(* Model of src/app.py, the "Makro-Dashboard Major Currencies" Streamlit   *)
(* script: provider fetch/parse functions, the st.cache_data(ttl=3600)     *)
(* memo table in front of them, get_series (the indicator resolver), the   *)
(* pct_change transforms and the chart / table rendering loops.            *)
(*                                                                         *)
(* Data conventions                                                        *)
(*   raw field   [k, n]   k = "ok"  : a parseable date / a number n        *)
(*                        k = "bad" : a string that does not parse         *)
(*                        k = "null": key present, JSON null               *)
(*                        k = "absent": key not present                    *)
(*   index entry [k, d]   k = "ok" a Timestamp d, k = "nat" pandas NaT     *)
(*   value       [k, n, d] k = "num" the rational n/d, "nan" NaN,          *)
(*                        "inf" an infinity of sign n                      *)
(*   Series      a sequence of [date, value] in index order                *)
(*   outcome     [kind, err, s]: a returned Series s or a raised exception *)
(***************************************************************************)
EXTENDS Integers, Sequences, FiniteSets, TLC

VARIABLES
    \* one call of a fetch function on one response
    callFn, payload, outcome,
    \* one call of Series.pct_change
    idx, lag, derived,
    \* the script: sidebar widgets, position, rendering state
    indicator, mode, countries, pc, pos, fig, dates, table, rerun,
    \* what get_series returns per country when the series are given
    resolved,
    \* st.cache_data memo table, the clock, and the call history
    cache, now, fetchCount, callCount, lastCall, lastFailed,
    \* concurrent sessions calling cached functions
    session, lock, filledBy

fnVars == <<callFn, payload, outcome>>
pctVars == <<idx, lag, derived>>
scriptVars == <<indicator, mode, countries, pc, pos, fig, dates, table, rerun>>
cacheVars == <<cache, now, fetchCount, callCount, lastCall, lastFailed>>
concVars == <<session, lock, filledBy>>
vars == <<fnVars, pctVars, scriptVars, resolved, cacheVars, concVars>>

\* ---------------------------------------------------------------- bounds
MaxRows == 2
MaxDate == 2
MaxVal == 1
MaxGood == 1
MaxSelected == 2
MaxTicks == 3
TickSeconds == 1800
MaxCalls == 2
MaxSeriesLen == 14
MaxEntities == 3
MaxSessions == 2

\* ------------------------------------------------------------- raw data
Field(k, n) == [k |-> k, n |-> n]
RawDates == {Field("ok", d) : d \in 1..MaxDate}
              \cup {Field("bad", 0), Field("null", 0), Field("absent", 0)}
RawValues == {Field("ok", v) : v \in 0..MaxVal}
              \cup {Field("bad", 0), Field("null", 0), Field("absent", 0)}
\* One record of a payload. alias: the JSON object also carries a key whose
\* lower-cased name is "obs", "observation" or "value" (only parse_sdmx_json
\* looks at it).
RawRows == [date : RawDates, value : RawValues, alias : BOOLEAN]

\* shape of a response:
\*   "transport"   requests.get raises
\*   "notjson"     the body is not JSON
\*   "wrongtop"    the top-level JSON value has the wrong type (a list for an
\*                 object format, an object for World Bank, a scalar for SDMX)
\*   "nocontainer" right top-level type, the record container is missing
\*   "ok"          the container is there and holds rows (possibly none)
Payload(shape, rows) == [shape |-> shape, rows |-> rows]
BadShapes == {"transport", "notjson", "wrongtop", "nocontainer"}

RECURSIVE SeqsUpTo(_, _)
SeqsUpTo(S, n) ==
    IF n = 0 THEN {<<>>}
    ELSE LET shorter == SeqsUpTo(S, n - 1)
         IN shorter \cup {Append(q, x) : q \in {t \in shorter : Len(t) = n - 1}, x \in S}

\* ------------------------------------------------------- pandas values
NaT == [k |-> "nat", d |-> 0]
Timestamp(d) == [k |-> "ok", d |-> d]
NaN == [k |-> "nan", n |-> 0, d |-> 1]
Num(n) == [k |-> "num", n |-> n, d |-> 1]
Ratio(n, d) == [k |-> "num", n |-> n, d |-> d]
Inf(sign) == [k |-> "inf", n |-> sign, d |-> 0]
Obs(date, value) == [date |-> date, value |-> value]

EmptySeries == <<>>
Raise(e) == [kind |-> "raise", err |-> e, s |-> <<>>]
Ret(s) == [kind |-> "series", err |-> "", s |-> s]

\* pd.to_datetime(x, errors="coerce")
ToDatetimeCoerce(f) == IF f.k = "ok" THEN Timestamp(f.n) ELSE NaT
\* pd.to_datetime(x) raises on an unparseable string; None gives None (NaT)
ToDatetimeRaises(f) == f.k = "bad"
\* pd.to_numeric(x, errors="coerce")
ToNumeric(f) == IF f.k = "ok" THEN Num(f.n) ELSE NaN
\* float(x) raises ValueError on a bad string and TypeError on None
FloatRaises(f) == f.k # "ok"

\* Series.sort_index(): ascending, NaT last, equal labels keep their order
IndexAfter(a, b) ==
    \/ a.k = "nat" /\ b.k = "ok"
    \/ a.k = "ok" /\ b.k = "ok" /\ a.d > b.d

RECURSIVE InsertAsc(_, _)
InsertAsc(sorted, x) ==
    IF sorted = <<>> THEN <<x>>
    ELSE IF IndexAfter(Head(sorted).date, x.date) THEN <<x>> \o sorted
    ELSE <<Head(sorted)>> \o InsertAsc(Tail(sorted), x)

RECURSIVE SortFrom(_, _)
SortFrom(done, rest) ==
    IF rest = <<>> THEN done
    ELSE SortFrom(InsertAsc(done, Head(rest)), Tail(rest))

SortIndex(s) == SortFrom(<<>>, s)

\* pd.DataFrame(list of dicts) has a column for every key some row carries
HasColumn(j, f) == \E i \in 1..Len(j) : j[i][f].k # "absent"

\* the container of a payload: what .get(key, default) hands the loop
Records(p) == IF p.shape = "ok" THEN p.rows ELSE <<>>

\* the [date, value] rows a loop appends, coerced as the frame's columns are
ObsOf(rows) == [n \in 1..Len(rows) |->
                  Obs(ToDatetimeCoerce(rows[n].date), ToNumeric(rows[n].value))]

\* df = pd.DataFrame(rows); df["value"] = ...; set_index("date")["value"].sort_index()
\* An empty rows list gives a frame without columns: df["value"] raises KeyError.
FrameToSeries(obs) ==
    IF obs = <<>> THEN Raise("KeyError") ELSE Ret(SortIndex(obs))

\* ------------------------------------------------ fetch / parse functions
\* requests.get(...) and response.json(), common to every fetch function
HttpRaises(p) == p.shape \in {"transport", "notjson"}
HttpError(p) == IF p.shape = "transport" THEN Raise("ConnectionError")
                ELSE Raise("JSONDecodeError")

\* parse_sdmx_json: the recursive walk collects every object that has an alias
\* key and both "TIME_PERIOD" and "OBS_VALUE"; p.rows are the objects of the
\* tree in walk order.
\*   d = o.get("TIME_PERIOD") or ...   (a null period falls through to None)
\*   v = o.get("OBS_VALUE") or ...     (a null or zero value falls through to
\*                                      the aliases, which hold no number: None)
SdmxRecognised(o) == o.alias /\ o.date.k # "absent" /\ o.value.k # "absent"
SdmxValue(o) == IF o.value.k = "ok" /\ o.value.n = 0 THEN Field("null", 0) ELSE o.value
SdmxKept(o) == ~ToDatetimeRaises(o.date) /\ ~FloatRaises(SdmxValue(o))
SdmxRows(rows) == [n \in 1..Len(rows) |->
                     Obs(ToDatetimeCoerce(rows[n].date), ToNumeric(SdmxValue(rows[n])))]
\* df.empty: empty Series; else dropna(subset=["value"]), set_index, sort_index
SdmxSeries(df) ==
    IF df = <<>> THEN Ret(EmptySeries)
    ELSE Ret(SortIndex(SelectSeq(df, LAMBDA o : o.value.k # "nan")))
parse_sdmx_json(p) ==
    IF p.shape = "notjson" THEN Raise("JSONDecodeError")
    ELSE SdmxSeries(SdmxRows(SelectSeq(SelectSeq(Records(p), SdmxRecognised), SdmxKept)))

\* fetch_usa: FRED, observations[] with string date / value
fetch_usa(p) ==
    IF HttpRaises(p) THEN HttpError(p)
    ELSE IF p.shape = "wrongtop" THEN Raise("AttributeError")
    ELSE IF ~HasColumn(Records(p), "date") \/ ~HasColumn(Records(p), "value")
         THEN Raise("KeyError")
    ELSE Ret(SortIndex(ObsOf(Records(p))))

\* fetch_eurostat: value{} keyed by code, period from dimension.time.category.label
EurostatKept(r) == r.date.k \in {"ok", "bad"} /\ ~ToDatetimeRaises(r.date)
fetch_eurostat(p) ==
    IF HttpRaises(p) THEN HttpError(p)
    ELSE IF p.shape = "wrongtop" THEN Raise("TypeError")
    ELSE IF p.shape = "nocontainer" THEN Raise("KeyError")
    ELSE FrameToSeries(ObsOf(SelectSeq(Records(p), EurostatKept)))

\* fetch_uk_unemp / fetch_uk_cpi: observations{} keyed by period, v["value"]
UkKept(r) == ~ToDatetimeRaises(r.date) /\ r.value.k # "absent"
fetch_uk(p) ==
    IF HttpRaises(p) THEN HttpError(p)
    ELSE IF p.shape = "wrongtop" THEN Raise("AttributeError")
    ELSE FrameToSeries(ObsOf(SelectSeq(Records(p), UkKept)))
fetch_uk_unemp(p) == fetch_uk(p)
fetch_uk_cpi(p) == fetch_uk(p)

\* fetch_germany, fetch_abs, fetch_statsnz, fetch_pxweb: requests.get, then
\* parse_sdmx_json(resp)
fetch_sdmx(p) == IF p.shape = "transport" THEN Raise("ConnectionError")
                 ELSE parse_sdmx_json(p)
fetch_germany(p) == fetch_sdmx(p)
fetch_abs(p) == fetch_sdmx(p)
fetch_statsnz(p) == fetch_sdmx(p)
fetch_pxweb(p) == fetch_sdmx(p)

\* fetch_estat: GET_STATS_DATA.STATISTICAL_DATA.DATA_INF.VALUE[] with @TIME, #text
\* (d + "-01-01" raises on None)
EstatKept(r) == r.date.k = "ok" /\ ~FloatRaises(r.value)
fetch_estat(p) ==
    IF HttpRaises(p) THEN HttpError(p)
    ELSE IF p.shape = "wrongtop" THEN Raise("AttributeError")
    ELSE FrameToSeries(ObsOf(SelectSeq(Records(p), EstatKept)))

\* fetch_statcan: object[] with REF_DATE / VALUE (pd.to_datetime(None) is None)
StatcanKept(r) == ~ToDatetimeRaises(r.date) /\ ~FloatRaises(r.value)
fetch_statcan(p) ==
    IF HttpRaises(p) THEN HttpError(p)
    ELSE IF p.shape = "wrongtop" THEN Raise("AttributeError")
    ELSE FrameToSeries(ObsOf(SelectSeq(Records(p), StatcanKept)))

\* fetch_worldbank: [meta, records[]] with date / value
\* (f"{d}-01-01" of None is "None-01-01", which does not parse)
WorldbankKept(r) == r.date.k = "ok" /\ ~FloatRaises(r.value)
fetch_worldbank(p) ==
    IF HttpRaises(p) THEN HttpError(p)
    ELSE FrameToSeries(ObsOf(SelectSeq(Records(p), WorldbankKept)))

FetchFunctions == {"fetch_usa", "fetch_eurostat", "fetch_uk_unemp", "fetch_uk_cpi",
                   "fetch_germany", "fetch_abs", "fetch_statsnz", "fetch_estat",
                   "fetch_pxweb", "fetch_statcan", "fetch_worldbank"}

\* the body of the cached function fn run on the response p
Fetch(fn, p) ==
    CASE fn = "fetch_usa" -> fetch_usa(p)
      [] fn = "fetch_eurostat" -> fetch_eurostat(p)
      [] fn = "fetch_uk_unemp" -> fetch_uk_unemp(p)
      [] fn = "fetch_uk_cpi" -> fetch_uk_cpi(p)
      [] fn = "fetch_germany" -> fetch_germany(p)
      [] fn = "fetch_abs" -> fetch_abs(p)
      [] fn = "fetch_statsnz" -> fetch_statsnz(p)
      [] fn = "fetch_estat" -> fetch_estat(p)
      [] fn = "fetch_pxweb" -> fetch_pxweb(p)
      [] fn = "fetch_statcan" -> fetch_statcan(p)
      [] fn = "fetch_worldbank" -> fetch_worldbank(p)

\* ------------------------------------------------------ Series.pct_change
\* fill_method="pad": a NaN takes the last value before it
RECURSIVE PadValue(_, _)
PadValue(s, n) ==
    IF s[n].value.k # "nan" \/ n = 1 THEN s[n].value ELSE PadValue(s, n - 1)

\* (a / b - 1) * 100 in floating point: x/0 is an infinity, 0/0 is NaN
PctValue(a, b) ==
    IF a.k # "num" \/ b.k # "num" THEN NaN
    ELSE IF b.n = 0 THEN (IF a.n = 0 THEN NaN ELSE Inf(IF a.n > 0 THEN 1 ELSE -1))
    ELSE Ratio((a.n - b.n) * 100, b.n)

\* s.pct_change(periods) * 100: data / data.shift(periods) - 1 on the same index;
\* pad is whether this pandas forward-fills first (the default before pandas 3)
PctChange(s, periods, pad) ==
    LET data(n) == IF pad THEN PadValue(s, n) ELSE s[n].value
    IN [n \in 1..Len(s) |->
          Obs(s[n].date, IF n <= periods THEN NaN ELSE PctValue(data(n), data(n - periods)))]

\* ------------------------------------------------------------ get_series
COUNTRIES == <<"USA", "Eurozone", "UK", "Germany", "Australia",
               "New Zealand", "Japan", "Switzerland", "Canada", "China">>
Indicators == {"Unemployment Rate", "Monthly Inflation Rate", "Annual Inflation Rate"}
Modes == {"Grafik", "Tabelle"}

Query(f, arg, periods) == [kind |-> "fetch", fn |-> f, arg |-> arg, periods |-> periods]
NoQuery(kind) == [kind |-> kind, fn |-> "", arg |-> "", periods |-> 0]

\* the branch of get_series taken for (ind, country): the cached call it makes and
\* the pct_change it applies to the result (periods = 0: none). "nameerror": the
\* argument WB_UNEMPLOY_IND / WB_INFLATION_IND is not defined anywhere, evaluating
\* it raises NameError before fetch_worldbank is called. "empty": returns
\* pd.Series(dtype=float) without a call.
Plan(ind, country) ==
    CASE ind = "Unemployment Rate" /\ country = "USA" -> Query("fetch_usa", "UNRATE", 0)
      [] ind = "Unemployment Rate" /\ country = "Eurozone" -> Query("fetch_eurostat", "une_rt_m", 0)
      [] ind = "Unemployment Rate" /\ country = "UK" -> Query("fetch_uk_unemp", "", 0)
      [] ind = "Unemployment Rate" /\ country = "Germany" -> Query("fetch_germany", "43121-0002", 0)
      [] ind = "Unemployment Rate" /\ country = "Australia" -> Query("fetch_abs", "6202.0", 0)
      [] ind = "Unemployment Rate" /\ country = "New Zealand" -> Query("fetch_statsnz", "LBUR5", 0)
      [] ind = "Unemployment Rate" /\ country = "Japan" -> Query("fetch_estat", "000336113", 0)
      [] ind = "Unemployment Rate" /\ country = "Switzerland" -> Query("fetch_pxweb", "LM06", 0)
      [] ind = "Unemployment Rate" /\ country = "Canada" -> Query("fetch_statcan", "14-10-0287-01", 0)
      [] ind = "Unemployment Rate" /\ country = "China" -> NoQuery("nameerror")
      [] ind = "Monthly Inflation Rate" /\ country = "USA" -> Query("fetch_usa", "CPIAUCSL", 1)
      [] ind = "Monthly Inflation Rate" /\ country = "Eurozone" -> Query("fetch_eurostat", "prc_hicp_midx", 0)
      [] ind = "Monthly Inflation Rate" /\ country = "UK" -> Query("fetch_uk_cpi", "", 1)
      [] ind = "Monthly Inflation Rate" /\ country = "Germany" -> Query("fetch_germany", "43121-0002", 1)
      [] ind = "Monthly Inflation Rate" /\ country = "Australia" -> Query("fetch_abs", "6401.0", 1)
      [] ind = "Monthly Inflation Rate" /\ country = "New Zealand" -> Query("fetch_statsnz", "PEZRD", 1)
      [] ind = "Monthly Inflation Rate" /\ country = "Japan" -> Query("fetch_estat", "000341231", 1)
      [] ind = "Monthly Inflation Rate" /\ country = "Switzerland" -> Query("fetch_pxweb", "PRICES", 1)
      [] ind = "Monthly Inflation Rate" /\ country = "Canada" -> Query("fetch_statcan", "18-10-0004-01", 1)
      [] ind = "Monthly Inflation Rate" /\ country = "China" -> NoQuery("empty")
      [] ind = "Annual Inflation Rate" /\ country = "USA" -> Query("fetch_usa", "CPIAUCSL", 12)
      [] ind = "Annual Inflation Rate" /\ country = "Eurozone" -> Query("fetch_eurostat", "prc_hicp_midx", 12)
      [] ind = "Annual Inflation Rate" /\ country = "UK" -> Query("fetch_uk_cpi", "", 12)
      [] ind = "Annual Inflation Rate" /\ country = "Germany" -> Query("fetch_germany", "43121-0002", 12)
      [] ind = "Annual Inflation Rate" /\ country = "Australia" -> Query("fetch_abs", "6401.0", 12)
      [] ind = "Annual Inflation Rate" /\ country = "New Zealand" -> Query("fetch_statsnz", "PEZRD", 12)
      [] ind = "Annual Inflation Rate" /\ country = "Japan" -> Query("fetch_estat", "000341231", 12)
      [] ind = "Annual Inflation Rate" /\ country = "Switzerland" -> Query("fetch_pxweb", "PRICES", 12)
      [] ind = "Annual Inflation Rate" /\ country = "Canada" -> Query("fetch_statcan", "18-10-0004-01", 12)
      [] ind = "Annual Inflation Rate" /\ country = "China" -> NoQuery("nameerror")
      [] OTHER -> NoQuery("empty")

\* ------------------------------------------------- st.cache_data(ttl=3600)
TTL == 3600

Queries == {<<Plan(ind, COUNTRIES[c]).fn, Plan(ind, COUNTRIES[c]).arg>> :
              ind \in Indicators, c \in 1..Len(COUNTRIES)} \ {<<"", "">>}

\* the memo table is a dict from (function, arguments) to the stored entry
NoEntry == [set |-> FALSE, s |-> <<>>, ts |-> 0]
Entry(s, t) == [set |-> TRUE, s |-> s, ts |-> t]
Stored(c, key) == IF key \in DOMAIN c THEN c[key] ELSE NoEntry
Put(c, key, e) == [k \in DOMAIN c \cup {key} |-> IF k = key THEN e ELSE c[k]]
Drop(c, key) == [k \in DOMAIN c \ {key} |-> c[k]]

\* an entry is served while its age is below the ttl
TtlNeverMutant(e, t) == e.set
Fresh(e, t) == e.set /\ t - e.ts < TTL

\* the response was a transport failure or did not have the expected shape
FetchFailed(p) == p.shape \in BadShapes

\* One call fn(arg) through the decorator at time t with the memo table c; p is
\* the response the provider gives if the function body runs. The returned
\* value is stored; a raised exception is not.
CallResult(out, hit, key, c, t) ==
    [out |-> out,
     fetched |-> ~hit,
     cache |-> IF ~hit /\ out.kind = "series" THEN Put(c, key, Entry(out.s, t)) ELSE c]
CachedCall(f, arg, p, c, t) ==
    IF Fresh(Stored(c, <<f, arg>>), t)
    THEN CallResult(Ret(Stored(c, <<f, arg>>).s), TRUE, <<f, arg>>, c, t)
    ELSE CallResult(Fetch(f, p), FALSE, <<f, arg>>, c, t)

\* get_series(country) under the sidebar's indicator: [out, fetched, cache,
\* key, applied] where applied lists the pct_change periods used on the way
Resolved(out, fetched, c, key, applied) ==
    [out |-> out, fetched |-> fetched, cache |-> c, key |-> key, applied |-> applied]
Transformed(plan, call, pad) ==
    IF call.out.kind = "series" /\ plan.periods > 0
    THEN Resolved(Ret(PctChange(call.out.s, plan.periods, pad)), call.fetched,
                  call.cache, <<plan.fn, plan.arg>>, <<plan.periods>>)
    ELSE Resolved(call.out, call.fetched, call.cache, <<plan.fn, plan.arg>>, <<>>)
DispatchRaisesMutant(plan, p, c, t, pad) ==
    IF plan.kind \in {"nameerror", "empty"}
    THEN Resolved(Raise("KeyError"), FALSE, c, <<"", "">>, <<>>)
    ELSE Transformed(plan, CachedCall(plan.fn, plan.arg, p, c, t), pad)
Dispatch(plan, p, c, t, pad) ==
    IF plan.kind = "nameerror" THEN Resolved(Raise("NameError"), FALSE, c, <<"", "">>, <<>>)
    ELSE IF plan.kind = "empty" THEN Resolved(Ret(EmptySeries), FALSE, c, <<"", "">>, <<>>)
    ELSE Transformed(plan, CachedCall(plan.fn, plan.arg, p, c, t), pad)
GetSeries(ind, country, p, c, t, pad) == Dispatch(Plan(ind, country), p, c, t, pad)

NoCall == [n |-> 0, country |-> "", key |-> <<"", "">>, fetched |-> FALSE,
           shape |-> "", out |-> Ret(EmptySeries), applied |-> <<>>,
           hadEntry |-> FALSE, age |-> 0, cached |-> <<>>, wasFailed |-> FALSE]

\* the effect of one get_series(country) call, which did r, on the memo table
\* and the history
Effects(r, country, p) ==
    /\ cache' = r.cache
    /\ callCount' = callCount + 1
    /\ fetchCount' = IF r.fetched THEN fetchCount + 1 ELSE fetchCount
    /\ lastFailed' = IF ~r.fetched THEN lastFailed
                     ELSE IF FetchFailed(p) THEN lastFailed \cup {r.key}
                     ELSE lastFailed \ {r.key}
    /\ lastCall' = [n |-> callCount + 1, country |-> country, key |-> r.key,
                    fetched |-> r.fetched,
                    shape |-> IF r.fetched THEN p.shape ELSE "",
                    out |-> r.out, applied |-> r.applied,
                    hadEntry |-> Stored(cache, r.key).set,
                    age |-> now - Stored(cache, r.key).ts,
                    cached |-> Stored(cache, r.key).s,
                    wasFailed |-> r.key \in lastFailed]

\* ------------------------------------------------------------- rendering
WindowSize == 13

\* Series.sort_index(ascending=False): descending, NaT last, ties keep their order
RECURSIVE InsertDesc(_, _)
InsertDesc(sorted, x) ==
    IF sorted = <<>> THEN <<x>>
    ELSE IF \/ Head(sorted).date.k = "nat" /\ x.date.k = "ok"
            \/ Head(sorted).date.k = "ok" /\ x.date.k = "ok" /\ Head(sorted).date.d < x.date.d
         THEN <<x>> \o sorted
    ELSE <<Head(sorted)>> \o InsertDesc(Tail(sorted), x)

RECURSIVE SortDescFrom(_, _)
SortDescFrom(done, rest) ==
    IF rest = <<>> THEN done
    ELSE SortDescFrom(InsertDesc(done, Head(rest)), Tail(rest))

SortDesc(s) == SortDescFrom(<<>>, s)

\* s.head(13), s.index[:13]
HeadN(s, n) == SubSeq(s, 1, IF Len(s) < n THEN Len(s) ELSE n)

\* table cells: f"{v:.2f}%" if pd.notna(v) else ""
Blank == [k |-> "blank", n |-> 0, d |-> 1]
NoneCell == [k |-> "none", n |-> 0, d |-> 1]
Cell(v) == IF v.k = "nan" THEN Blank ELSE v
Cells(s) == [n \in 1..Len(s) |-> Cell(s[n].value)]

RECURSIVE MaxWidth(_)
MaxWidth(rows) ==
    IF rows = <<>> THEN 0
    ELSE IF \A r \in 1..Len(rows) : Len(rows[r].cells) <= Len(Head(rows).cells)
         THEN Len(Head(rows).cells)
    ELSE MaxWidth(Tail(rows))

\* pd.DataFrame.from_dict(table, orient="index", columns=cols): the rows are padded
\* with None to the longest one; a column list of another length is a ValueError
FromDictRaises(rows, cols) == rows # <<>> /\ MaxWidth(rows) # Len(cols)
FromDict(rows, cols) ==
    [r \in 1..Len(rows) |->
        [country |-> rows[r].country,
         cells |-> [n \in 1..Len(cols) |->
                      IF n <= Len(rows[r].cells) THEN rows[r].cells[n] ELSE NoneCell]]]

\* d.strftime("%b %Y") raises ValueError on NaT
StrftimeRaises(ds) == \E n \in 1..Len(ds) : ds[n].k = "nat"

\* ---- one pass of each loop body, given what get_series(c) did (res)
\* for c in countries: s = get_series(c); if not s.empty: fig.add_scatter(...)
ChartBody(c, res) ==
    /\ pc' = IF res.kind = "raise" THEN "error" ELSE "chart"
    /\ pos' = IF res.kind = "raise" THEN pos ELSE pos + 1
    /\ fig' = IF res.kind = "series" /\ res.s # <<>> THEN Append(fig, c) ELSE fig
    /\ UNCHANGED <<dates, table>>

\* for c in countries: s0 = get_series(c).sort_index(ascending=False)
\*     if not s0.empty: dates = s0.index[:13]; break
\* cols = [d.strftime("%b %Y") for d in dates]
ColsFound(s0) == [n \in 1..Len(HeadN(s0, WindowSize)) |-> s0[n].date]
ColsBody(s0, res) ==
    /\ pc' = IF res.kind = "raise" THEN "error"
             ELSE IF s0 = <<>> THEN "cols"
             ELSE IF StrftimeRaises(ColsFound(s0)) THEN "error" ELSE "rows"
    /\ pos' = IF res.kind = "raise" THEN pos
              ELSE IF s0 = <<>> THEN pos + 1 ELSE 1
    /\ dates' = IF res.kind = "series" /\ s0 # <<>> THEN ColsFound(s0) ELSE dates
    /\ UNCHANGED <<fig, table>>

\* for c in countries: s = get_series(c).sort_index(ascending=False).head(13).tolist()
\*     table[c] = [...]
RowsBody(c, res) ==
    /\ pc' = IF res.kind = "raise" THEN "error" ELSE "rows"
    /\ pos' = IF res.kind = "raise" THEN pos ELSE pos + 1
    /\ table' = IF res.kind = "raise" THEN table
                ELSE Append(table, [country |-> c,
                                    cells |-> Cells(HeadN(SortDesc(res.s), WindowSize))])
    /\ UNCHANGED <<fig, dates>>

\* ------------------------------------------------- the script, run by run
Selectable == {"USA", "Germany"}
Selections == {q \in SeqsUpTo(Selectable, MaxSelected) :
                 \A a, b \in 1..Len(q) : a # b => q[a] # q[b]}

GoodRows(n) == [j \in 1..n |-> [date |-> Field("ok", j), value |-> Field("ok", j),
                                alias |-> TRUE]]
\* the responses a provider gives in the script runs
Responses == {Payload("transport", <<>>), Payload("nocontainer", <<>>)}
               \cup {Payload("ok", GoodRows(n)) : n \in 1..MaxGood}

\* Streamlit runs the script top to bottom under the sidebar's values
Run(ind, m, sel) ==
    /\ pc = "idle"
    /\ indicator' = ind /\ mode' = m /\ countries' = sel
    /\ pc' = IF m = "Grafik" THEN "chart" ELSE "cols"
    /\ pos' = 1 /\ fig' = <<>> /\ dates' = <<>> /\ table' = <<>>
    /\ UNCHANGED <<fnVars, pctVars, resolved, cacheVars, concVars, rerun>>

\* and runs it again on an interaction or a page load; the memo table outlives
\* the run. One rerun, under the same sidebar values, is explored.
Rerun ==
    /\ pc \in {"done", "error"} /\ ~rerun
    /\ rerun' = TRUE
    /\ pc' = IF mode = "Grafik" THEN "chart" ELSE "cols"
    /\ pos' = 1 /\ fig' = <<>> /\ dates' = <<>> /\ table' = <<>>
    /\ UNCHANGED <<fnVars, pctVars, resolved, cacheVars, concVars,
                   indicator, mode, countries>>

ChartCall(r, p) == Effects(r, countries[pos], p) /\ ChartBody(countries[pos], r.out)
ColsCall(r, p) == Effects(r, countries[pos], p) /\ ColsBody(SortDesc(r.out.s), r.out)
RowsCall(r, p) == Effects(r, countries[pos], p) /\ RowsBody(countries[pos], r.out)

ChartStep ==
    /\ pc = "chart" /\ pos <= Len(countries)
    /\ \E p \in Responses, pad \in BOOLEAN :
          ChartCall(GetSeries(indicator, countries[pos], p, cache, now, pad), p)
    /\ UNCHANGED <<fnVars, pctVars, resolved, concVars, now,
                   indicator, mode, countries, rerun>>

\* st.plotly_chart(fig)
ChartDone ==
    /\ pc = "chart" /\ pos > Len(countries)
    /\ pc' = "done"
    /\ UNCHANGED <<fnVars, pctVars, resolved, cacheVars, concVars,
                   indicator, mode, countries, rerun, pos, fig, dates, table>>

ColsStep ==
    /\ pc = "cols" /\ pos <= Len(countries)
    /\ \E p \in Responses, pad \in BOOLEAN :
          ColsCall(GetSeries(indicator, countries[pos], p, cache, now, pad), p)
    /\ UNCHANGED <<fnVars, pctVars, resolved, concVars, now,
                   indicator, mode, countries, rerun>>

\* the column loop ended without a break: dates stays []
ColsDone ==
    /\ pc = "cols" /\ pos > Len(countries)
    /\ pc' = "rows" /\ pos' = 1
    /\ UNCHANGED <<fnVars, pctVars, resolved, cacheVars, concVars,
                   indicator, mode, countries, rerun, fig, dates, table>>

RowsStep ==
    /\ pc = "rows" /\ pos <= Len(countries)
    /\ \E p \in Responses, pad \in BOOLEAN :
          RowsCall(GetSeries(indicator, countries[pos], p, cache, now, pad), p)
    /\ UNCHANGED <<fnVars, pctVars, resolved, concVars, now,
                   indicator, mode, countries, rerun>>

\* df = pd.DataFrame.from_dict(table, orient="index", columns=cols); st.dataframe(df)
Build ==
    /\ pc = "rows" /\ pos > Len(countries)
    /\ pc' = IF FromDictRaises(table, dates) THEN "error" ELSE "done"
    /\ table' = IF FromDictRaises(table, dates) THEN table ELSE FromDict(table, dates)
    /\ UNCHANGED <<fnVars, pctVars, resolved, cacheVars, concVars,
                   indicator, mode, countries, rerun, pos, fig, dates>>

\* time passes between and during runs
Tick ==
    /\ now < MaxTicks * TickSeconds
    /\ now' = now + TickSeconds
    /\ UNCHANGED <<fnVars, pctVars, scriptVars, resolved, concVars,
                   cache, fetchCount, callCount, lastCall, lastFailed>>

IdleFn == callFn = "" /\ payload = Payload("ok", <<>>) /\ outcome = Ret(EmptySeries)
IdlePct == idx = <<>> /\ lag = 0 /\ derived = <<>>
IdleScript ==
    /\ indicator = "Unemployment Rate" /\ mode = "Grafik" /\ countries = <<>>
    /\ pc = "idle" /\ pos = 1 /\ fig = <<>> /\ dates = <<>> /\ table = <<>> /\ rerun = FALSE
EmptyCache ==
    /\ cache = <<>> /\ now = 0
    /\ fetchCount = 0 /\ callCount = 0 /\ lastCall = NoCall
    /\ lastFailed = {}
IdleConc == session = <<>> /\ lock = <<>> /\ filledBy = <<>>

Init ==
    /\ IdleFn /\ IdlePct /\ IdleScript /\ EmptyCache /\ IdleConc
    /\ resolved = <<>>

Next ==
    \/ \E ind \in Indicators, m \in Modes, sel \in Selections : Run(ind, m, sel)
    \/ Rerun
    \/ ChartStep \/ ChartDone
    \/ ColsStep \/ ColsDone \/ RowsStep \/ Build
    \/ Tick

Spec == Init /\ [][Next]_vars

\* ------------------------------------------- one fetch call on one response
\* the rows a provider's format can carry: only the SDMX walk looks at alias
\* keys, the ONS maps are keyed by the period, Eurostat's value{} always holds
\* a value
RowsFor(f) ==
    {r \in RawRows :
        /\ f \notin {"fetch_germany", "fetch_abs", "fetch_statsnz", "fetch_pxweb"} => ~r.alias
        /\ f \in {"fetch_uk_unemp", "fetch_uk_cpi"} => r.date.k \in {"ok", "bad"}
        /\ f = "fetch_eurostat" => r.value.k # "absent"}
PayloadsFor(f) ==
    {Payload(sh, <<>>) : sh \in BadShapes}
      \cup {Payload("ok", rows) : rows \in SeqsUpTo(RowsFor(f), MaxRows)}

InitFetch ==
    /\ callFn \in FetchFunctions
    /\ payload \in PayloadsFor(callFn)
    /\ outcome = Ret(EmptySeries)
    /\ IdlePct /\ IdleScript /\ EmptyCache /\ IdleConc
    /\ resolved = <<>>

FetchCall ==
    /\ pc = "idle"
    /\ outcome' = Fetch(callFn, payload)
    /\ pc' = "returned"
    /\ UNCHANGED <<callFn, payload, pctVars, resolved, cacheVars, concVars,
                   indicator, mode, countries, pos, fig, dates, table, rerun>>

SpecFetch == InitFetch /\ [][FetchCall]_vars

\* ------------------------------------------------- one pct_change call
\* index-level series of length n: values 1..n at dates 1..n, with a NaN at
\* position hole and a zero at position zero (0: none)
IndexSeries(n, hole, zero) ==
    [j \in 1..n |-> Obs(Timestamp(j), IF j = hole THEN NaN
                                     ELSE IF j = zero THEN Num(0) ELSE Num(j))]
IndexInputs == {IndexSeries(n, hole, zero) :
                  n \in 0..MaxSeriesLen, hole \in 0..MaxSeriesLen, zero \in 0..MaxSeriesLen}

InitPct ==
    /\ idx \in IndexInputs
    /\ lag \in {1, 12}
    /\ derived = <<>>
    /\ IdleFn /\ IdleScript /\ EmptyCache /\ IdleConc
    /\ resolved = <<>>

\* idx.pct_change(lag) * 100
PctCall ==
    /\ pc = "idle"
    /\ \E pad \in BOOLEAN : derived' = PctChange(idx, lag, pad)
    /\ pc' = "returned"
    /\ UNCHANGED <<idx, lag, fnVars, resolved, cacheVars, concVars,
                   indicator, mode, countries, pos, fig, dates, table, rerun>>

SpecPct == InitPct /\ [][PctCall]_vars

\* ------------------------------------------------- get_series, call by call
CountryNames == {COUNTRIES[n] : n \in 1..Len(COUNTRIES)} \cup {"Atlantis"}

InitResolve ==
    /\ indicator \in Indicators
    /\ countries \in {<<c>> : c \in CountryNames}
    /\ mode = "Grafik" /\ pc = "idle" /\ pos = 1
    /\ fig = <<>> /\ dates = <<>> /\ table = <<>> /\ rerun = FALSE
    /\ IdleFn /\ IdlePct /\ EmptyCache /\ IdleConc
    /\ resolved = <<>>

\* get_series(countries[1])
Resolve ==
    /\ callCount < MaxCalls
    /\ \E p \in Responses, pad \in BOOLEAN :
          Effects(GetSeries(indicator, countries[1], p, cache, now, pad), countries[1], p)
    /\ UNCHANGED <<fnVars, pctVars, scriptVars, resolved, concVars, now>>

SpecResolve == InitResolve /\ [][Resolve]_vars

\* ------------------------------------ the table branch over given series
\* what get_series returned for an entity: n observations at dates 1..n, the
\* most recent one NaN when hole
GivenSeries(n, hole) ==
    [j \in 1..n |-> Obs(Timestamp(j), IF hole /\ j = n THEN NaN ELSE Num(j))]
GivenInputs == {GivenSeries(n, hole) : n \in 0..MaxSeriesLen, hole \in BOOLEAN}
Entities(k) == [n \in 1..k |-> COUNTRIES[n]]

InitTable ==
    /\ \E k \in 1..MaxEntities :
          /\ countries = Entities(k)
          /\ resolved \in [{COUNTRIES[n] : n \in 1..k} -> GivenInputs]
    /\ indicator = "Unemployment Rate" /\ mode = "Tabelle"
    /\ pc = "cols" /\ pos = 1
    /\ fig = <<>> /\ dates = <<>> /\ table = <<>> /\ rerun = FALSE
    /\ IdleFn /\ IdlePct /\ EmptyCache /\ IdleConc

TableColsStep ==
    /\ pc = "cols" /\ pos <= Len(countries)
    /\ ColsBody(SortDesc(resolved[countries[pos]]), Ret(resolved[countries[pos]]))
    /\ UNCHANGED <<fnVars, pctVars, resolved, cacheVars, concVars,
                   indicator, mode, countries, rerun>>

TableRowsStep ==
    /\ pc = "rows" /\ pos <= Len(countries)
    /\ RowsBody(countries[pos], Ret(resolved[countries[pos]]))
    /\ UNCHANGED <<fnVars, pctVars, resolved, cacheVars, concVars,
                   indicator, mode, countries, rerun>>

NextTable == TableColsStep \/ ColsDone \/ TableRowsStep \/ Build

SpecTable == InitTable /\ [][NextTable]_vars

\* --------------------------------- sessions sharing the st.cache_data table
\* Streamlit runs each browser session's script on a thread of its own; the
\* memo table of a cached function is shared by all of them. On a miss the
\* decorator takes the value's compute lock, looks the value up again and only
\* then runs the function body; the lock is released when the body returns or
\* raises. lock[k] is the number of the fetch running under k's lock (no k: free),
\* filledBy[k] the number of the fetch that stored k's entry.
Sessions == 1..MaxSessions
Holder(k) == IF k \in DOMAIN lock THEN lock[k] ELSE 0
Filler(k) == IF k \in DOMAIN filledBy THEN filledBy[k] ELSE 0
ConcKey(country) == <<Plan("Unemployment Rate", country).fn,
                      Plan("Unemployment Rate", country).arg>>
IdleSession == [pc |-> "idle", key |-> <<"", "">>, saw |-> 0, fid |-> 0,
                out |-> Ret(EmptySeries), calls |-> 0]

InitConc ==
    /\ session = [s \in Sessions |-> IdleSession]
    /\ lock = <<>>
    /\ filledBy = <<>>
    /\ IdleFn /\ IdlePct /\ IdleScript /\ EmptyCache
    /\ resolved = <<>>

\* a session's get_series reaches the cached call: first lookup, without the lock
ConcCall(s, k) ==
    /\ session[s].pc = "idle" /\ session[s].calls < MaxCalls
    /\ session' = [session EXCEPT ![s] =
          IF Fresh(Stored(cache, k), now)
          THEN [pc |-> "returned", key |-> k, saw |-> Holder(k), fid |-> Filler(k),
                out |-> Ret(Stored(cache, k).s), calls |-> @.calls + 1]
          ELSE [pc |-> "wait", key |-> k, saw |-> Holder(k), fid |-> 0,
                out |-> Ret(EmptySeries), calls |-> @.calls + 1]]
    /\ UNCHANGED <<fnVars, pctVars, scriptVars, resolved, cacheVars, lock, filledBy>>

\* it gets the compute lock and looks again: a hit returns, a miss starts the fetch
ConcAcquire(s) ==
    /\ session[s].pc = "wait" /\ Holder(session[s].key) = 0
    /\ IF Fresh(Stored(cache, session[s].key), now)
       THEN /\ session' = [session EXCEPT ![s].pc = "returned",
                                          ![s].fid = Filler(session[s].key),
                                          ![s].out = Ret(Stored(cache, session[s].key).s)]
            /\ UNCHANGED <<lock, fetchCount>>
       ELSE /\ session' = [session EXCEPT ![s].pc = "fetching", ![s].fid = fetchCount + 1]
            /\ lock' = Put(lock, session[s].key, fetchCount + 1)
            /\ fetchCount' = fetchCount + 1
    /\ UNCHANGED <<fnVars, pctVars, scriptVars, resolved, filledBy,
                   cache, now, callCount, lastCall, lastFailed>>

\* the function body ends: a returned Series is stored, an exception is not
ConcStore(s, out) ==
    /\ session' = [session EXCEPT ![s].pc = IF out.kind = "raise" THEN "raised" ELSE "returned",
                                  ![s].out = out]
    /\ cache' = IF out.kind = "series"
                THEN Put(cache, session[s].key, Entry(out.s, now)) ELSE cache
    /\ filledBy' = IF out.kind = "series"
                   THEN Put(filledBy, session[s].key, session[s].fid) ELSE filledBy
    /\ lock' = Drop(lock, session[s].key)
ConcFinish(s) ==
    /\ session[s].pc = "fetching"
    /\ \E p \in Responses : ConcStore(s, Fetch(session[s].key[1], p))
    /\ UNCHANGED <<fnVars, pctVars, scriptVars, resolved,
                   now, fetchCount, callCount, lastCall, lastFailed>>

\* the caller goes on (the next country, or the session's next run)
ConcReturn(s) ==
    /\ session[s].pc \in {"returned", "raised"}
    /\ session' = [session EXCEPT ![s].pc = "idle"]
    /\ UNCHANGED <<fnVars, pctVars, scriptVars, resolved, cacheVars, lock, filledBy>>

NextConc ==
    \E s \in Sessions :
        \/ \E c \in Selectable : ConcCall(s, ConcKey(c))
        \/ ConcAcquire(s)
        \/ ConcFinish(s)
        \/ ConcReturn(s)

SpecConc == InitConc /\ [][NextConc]_vars

\* =================================================================== claims
Min(a, b) == IF a < b THEN a ELSE b
Max(a, b) == IF a > b THEN a ELSE b

\* a payload that lacks the fields the parser needs: wrong top-level type, no
\* record container, or an empty record list
MissingRequired(p) ==
    \/ p.shape \in {"wrongtop", "nocontainer"}
    \/ p.shape = "ok" /\ p.rows = <<>>

\* C1: every fetch/parse function, given a payload that is missing its required
\* fields, returns an empty Series and does not raise.
C1_MissingFieldsGiveEmpty ==
    (pc = "returned" /\ MissingRequired(payload)) => outcome = Ret(EmptySeries)

\* C2: a call that finds its key's entry younger than 3600 s does not run the
\* underlying fetch and returns the stored Series; a call that finds the entry
\* older than 3600 s runs the fetch again.
C2_OneFetchPerWindow ==
    lastCall.hadEntry =>
        /\ lastCall.age < TTL => ~lastCall.fetched
        /\ (lastCall.age < TTL /\ lastCall.applied = <<>>)
              => lastCall.out = Ret(lastCall.cached)
        /\ lastCall.age > TTL => lastCall.fetched

\* C2 witness: one selected country, so one key: fetched, served from the memo
\* table at least once, and fetched a second time once the entry was over 3600 s
C2_RefetchAfterExpiry ==
    /\ Len(countries) = 1 /\ mode = "Tabelle"
    /\ callCount >= 3 /\ fetchCount = 2
    /\ lastCall.hadEntry /\ lastCall.age > TTL /\ lastCall.fetched

\* C3: after a fetch for a query ended in a transport or payload-shape failure
\* (raised or downgraded to an empty Series), the next call for that query runs
\* the underlying fetch again.
C3_FailedFetchRetried == lastCall.wasFailed => lastCall.fetched

\* C4: per key at most one fetch is in flight; a caller that arrived while a
\* fetch for its key was in flight gets that fetch's result; a caller waiting
\* for a key whose lock is free can go on whatever the other keys do.
C4_SingleFlight ==
    /\ \A k \in Queries :
          Cardinality({s \in Sessions : session[s].pc = "fetching" /\ session[s].key = k}) <= 1
    /\ \A s \in Sessions :
          (session[s].pc \in {"returned", "raised"} /\ session[s].saw # 0)
              => session[s].fid = session[s].saw
    /\ \A s \in Sessions :
          (session[s].pc = "wait" /\ Holder(session[s].key) = 0) => ENABLED ConcAcquire(s)

\* C5: a transport or format failure of one provider gives an empty Series for
\* that country and the pass goes on; it never aborts the script.
C5_FailureStaysLocal ==
    (lastCall.fetched /\ lastCall.shape \in BadShapes)
        => (lastCall.out = Ret(EmptySeries) /\ pc # "error")

\* a (country, indicator) pair without a provider: a name outside the country
\* list, or China under the monthly rate
NoMapping(ind, country) ==
    \/ \A n \in 1..Len(COUNTRIES) : COUNTRIES[n] # country
    \/ ind = "Monthly Inflation Rate" /\ country = "China"

\* C6: for a pair without a provider mapping get_series returns an empty Series,
\* does not raise and performs no fetch.
C6_NoCoverageIsEmpty ==
    (lastCall.n > 0 /\ NoMapping(indicator, lastCall.country))
        => /\ lastCall.out = Ret(EmptySeries)
           /\ ~lastCall.fetched /\ fetchCount = 0
           /\ cache = <<>>

\* C6 witness: get_series("Atlantis") under "Unemployment Rate" has returned
C6_AtlantisResolved ==
    /\ lastCall.n > 0 /\ lastCall.country = "Atlantis"
    /\ indicator = "Unemployment Rate"
    /\ lastCall.out = Ret(EmptySeries)

\* C7: the Series a fetch/parse function returns is strictly increasing by
\* date, each date occurring once.
C7_StrictlyAscendingUnique ==
    (pc = "returned" /\ outcome.kind = "series") =>
        \A a, b \in 1..Len(outcome.s) :
            (a < b /\ outcome.s[a].date.k = "ok" /\ outcome.s[b].date.k = "ok")
                => outcome.s[a].date.d < outcome.s[b].date.d

\* the value the claim gives position n of the derived series
ClaimedPct(s, n, periods) ==
    IF s[n].value.k = "num" /\ s[n - periods].value.k = "num" /\ s[n - periods].value.n # 0
    THEN Ratio((s[n].value.n - s[n - periods].value.n) * 100, s[n - periods].value.n)
    ELSE NaN

\* C8: the derived series has max(n - lag, 0) observations, one per position
\* after the first lag ones, each the percentage change when both operands are
\* present and the base is nonzero, and absent otherwise.
C8_PctChangeDropsLead ==
    pc = "returned" =>
        /\ Len(derived) = Max(Len(idx) - lag, 0)
        /\ \A n \in 1..Len(derived) :
              derived[n] = Obs(idx[n + lag].date, ClaimedPct(idx, n + lag, lag))

\* the first entity, in caller order, whose series is not empty (0: none)
FirstNonEmpty == IF \E n \in 1..Len(countries) : resolved[countries[n]] # <<>>
                 THEN CHOOSE n \in 1..Len(countries) :
                        /\ resolved[countries[n]] # <<>>
                        /\ \A m \in 1..(n - 1) : resolved[countries[m]] = <<>>
                 ELSE 0
ClaimedColumns == IF FirstNonEmpty = 0 THEN 0
                  ELSE Min(WindowSize, Len(resolved[countries[FirstNonEmpty]]))

\* C9: for any mix of series lengths the table is built without error, one row
\* per entity, each row with as many cells as there are columns, the column
\* count being min(13, length of the first non-empty series).
C9_AlignCompletes ==
    /\ pc # "error"
    /\ pc = "done" =>
          /\ Len(table) = Len(countries)
          /\ Len(dates) = ClaimedColumns
          /\ \A r \in 1..Len(table) : Len(table[r].cells) = Len(dates)

\* the transform the claim fixes for an indicator
ClaimedTransform(ind) ==
    CASE ind = "Unemployment Rate" -> <<>>
      [] ind = "Monthly Inflation Rate" -> <<1>>
      [] ind = "Annual Inflation Rate" -> <<12>>

\* C10: for every country with a provider mapping, get_series applies no
\* pct_change under "Unemployment Rate", exactly one pct_change(1) under
\* "Monthly Inflation Rate" and exactly one pct_change(12) under "Annual
\* Inflation Rate" to the fetched series.
C10_TransformFixedPerIndicator ==
    (lastCall.n > 0 /\ ~NoMapping(indicator, lastCall.country)
       /\ lastCall.out.kind = "series")
        => lastCall.applied = ClaimedTransform(indicator)

====
